---- MODULE Spec2Model ----
(***************************************************************************)
(* Model of the Performance Index Engine, class UnifiedPerformanceIndex of *)
(* unified_performance_index_standardized.js.                              *)
(*                                                                         *)
(* Time is counted in ticks, TicksPerDay ticks to a calendar day; a        *)
(* timestamp is the tick at which it was taken (the ISO-8601 string the    *)
(* code stores is parsed back to the same instant).  Numbers the code      *)
(* computes in floating point are kept as exact fractions [n, d] until the *)
(* code rounds them (a double a few ulps off an exact half may round the   *)
(* other way; the model rounds the exact value).                           *)
(* A numeric field that is absent from a workout record                    *)
(* is 0 and an absent string field is "": the code reads every such field  *)
(* through `x || default`, which treats both the same way.                 *)
(***************************************************************************)
EXTENDS Integers, Sequences, FiniteSets, TLC

VARIABLES now, workoutLog, current, history, lastOp, lastRead, inv, steps

vars == <<now, workoutLog, current, history, lastOp, lastRead, inv, steps>>

(* ------------------------------ bounds --------------------------------- *)
TicksPerDay == 2
MaxSteps == 4

Users == {"u1", "u2"}

(* --------------------------- program constants -------------------------- *)
MAX_HISTORY_DAYS == 90
NoDate == -1

Min(a, b) == IF a < b THEN a ELSE b
Max(a, b) == IF a > b THEN a ELSE b

(* Math.round(Math.max(0, Math.min(100, n/d))) for d > 0 *)
RoundClamp(n, d) ==
    IF n < 0 THEN 0
    ELSE IF n > 100 * d THEN 100
    ELSE (2 * n + d) \div (2 * d)

(* Math.round(n/d) for n >= 0, d > 0 *)
Round(n, d) == (2 * n + d) \div (2 * d)

(* Array.prototype.slice(-k) *)
LastK(s, k) == IF Len(s) <= k THEN s ELSE SubSeq(s, Len(s) - k + 1, Len(s))

(* ------------------------------ calendar -------------------------------- *)
DayOf(t) == t \div TicksPerDay

DaysInMonth(m) ==
    CASE (m % 12) \in {0, 2, 4, 6, 7, 9, 11} -> 31
      [] (m % 12) = 1 -> 28
      [] OTHER -> 30

(* first day of month m, day 0 being the first day of month 0 *)
RECURSIVE MonthStartDay(_)
MonthStartDay(m) ==
    IF m = 0 THEN 0
    ELSE IF m < 0 THEN MonthStartDay(m + 1) - DaysInMonth(m + 12)
    ELSE MonthStartDay(m - 1) + DaysInMonth(m - 1)

RECURSIVE MonthOfDayFrom(_, _)
MonthOfDayFrom(d, m) == IF d < MonthStartDay(m + 1) THEN m ELSE MonthOfDayFrom(d, m + 1)

MonthOf(t) == MonthOfDayFrom(DayOf(t), 0)

(* ---------------------------- workout records --------------------------- *)
(* One element of the 'workoutHistory' array.  isNull: the element is the  *)
(* JSON value null, so that reading any property of it raises a TypeError. *)
Workout(isNull, date, calories, activity, duration, heartRate, age, weight, gender) ==
    [isNull |-> isNull, date |-> date, calories |-> calories, activity |-> activity,
     duration |-> duration, heartRate |-> heartRate, age |-> age, weight |-> weight,
     gender |-> gender]

(* String.prototype.toLowerCase on the activity names in use *)
ToLower(str) ==
    CASE str = "Running" -> "running"
      [] str = "Yoga" -> "yoga"
      [] OTHER -> str

(* this.metValues[activity] || 7.0, in tenths *)
metValues10(activity) ==
    CASE activity = "running" -> 110
      [] activity = "cycling" -> 80
      [] activity = "swimming" -> 100
      [] activity = "weightlifting" -> 60
      [] activity = "boxing" -> 120
      [] activity = "walking" -> 38
      [] activity = "yoga" -> 25
      [] OTHER -> 70

OrDefault(x, dflt) == IF x = 0 THEN dflt ELSE x
OrDefaultStr(x, dflt) == IF x = "" THEN dflt ELSE x

(* the age factor of getStandardizedTargetCalories, in tenths *)
ageAdjust10(age) ==
    IF age < 20 THEN 11
    ELSE IF age > 50 THEN 9
    ELSE IF age > 65 THEN 8
    ELSE 10

genderAdjust10(gender) == IF ToLower(gender) = "male" THEN 11 ELSE 10

getStandardizedTargetCalories(w) ==
    Round(metValues10(ToLower(OrDefaultStr(w.activity, "running")))
            * OrDefault(w.weight, 70) * OrDefault(w.duration, 30)
            * ageAdjust10(OrDefault(w.age, 25))
            * genderAdjust10(OrDefaultStr(w.gender, "male")),
          10 * 60 * 10 * 10)

(* intensityPercent of estimateHeartRate, in hundredths *)
intensityPercent100(activity, duration) ==
    CASE activity = "running" -> 75 + (IF duration > 30 THEN 10 ELSE 0)
      [] activity = "cycling" -> 70
      [] activity = "swimming" -> 80
      [] activity = "weightlifting" -> 65
      [] activity = "boxing" -> 85
      [] activity = "walking" -> 55
      [] activity = "yoga" -> 45
      [] OTHER -> 70

estimateHeartRate(w) ==
    Round((220 - OrDefault(w.age, 25))
            * intensityPercent100(ToLower(OrDefaultStr(w.activity, "running")),
                                  OrDefault(w.duration, 30)),
          100)

(* getHeartRateZoneScore(hr / maxHr * 100), maxHr > 0 *)
getHeartRateZoneScore(hr, maxHr) ==
    IF 100 * hr >= 50 * maxHr /\ 100 * hr < 60 * maxHr THEN 20
    ELSE IF 100 * hr >= 60 * maxHr /\ 100 * hr < 70 * maxHr THEN 40
    ELSE IF 100 * hr >= 70 * maxHr /\ 100 * hr < 80 * maxHr THEN 70
    ELSE IF 100 * hr >= 80 * maxHr /\ 100 * hr < 90 * maxHr THEN 90
    ELSE IF 100 * hr >= 90 * maxHr THEN 100
    ELSE 10

(* new Date(workout.date || workout.timestamp) >= bound; an absent date   *)
(* gives an Invalid Date, for which every comparison is false              *)
DateAtLeast(w, bound) == w.date # NoDate /\ w.date >= bound
DateAtMost(w, bound) == w.date # NoDate /\ w.date <= bound

Frac(n, d) == [n |-> n, d |-> d]

(* ------------------------------- scorers -------------------------------- *)
(* the 30-day window both consistency and variety count in *)
RecentWorkouts(wh, t) == SelectSeq(wh, LAMBDA w : DateAtLeast(w, t - 30 * TicksPerDay))

(* the score without the cap at 100 *)
ConsistencyOfCount_NoCap(n) == IF n < 3 THEN Frac(10 * n, 3) ELSE Frac(100 * n, 30)

(* the score for a number of workouts in the last 30 days *)
ConsistencyOfCount(n) == IF n < 3 THEN Frac(10 * n, 3) ELSE Frac(Min(3000, 100 * n), 30)

calculateStandardizedConsistency(wh, t) == ConsistencyOfCount(Len(RecentWorkouts(wh, t)))

(* totalActualCalories and totalTargetCalories over the records ws *)
RECURSIVE TotalCalories(_)
TotalCalories(ws) == IF ws = <<>> THEN 0 ELSE Head(ws).calories + TotalCalories(Tail(ws))

RECURSIVE TotalTarget(_)
TotalTarget(ws) ==
    IF ws = <<>> THEN 0 ELSE getStandardizedTargetCalories(Head(ws)) + TotalTarget(Tail(ws))

(* Math.min(100, actual / target * 100), 50 for a target of 0 *)
PerformanceRatio(actual, target) ==
    IF target = 0 THEN Frac(50, 1)
    ELSE IF actual > target THEN Frac(100, 1)
    ELSE Frac(100 * actual, target)

calculateStandardizedPerformance(wh) ==
    IF Len(wh) = 0 THEN Frac(50, 1)
    ELSE PerformanceRatio(TotalCalories(LastK(wh, 10)), TotalTarget(LastK(wh, 10)))

(* getAverageCalories as a fraction; 0 for no workouts *)
getAverageCalories(ws) ==
    IF Len(ws) = 0 THEN Frac(0, 1) ELSE Frac(TotalCalories(ws), Len(ws))

(* 50 + improvementPercent / 5 * 100 cut to 0..100, improvementPercent = pn / pd *)
ScaledImprovement(pn, pd) ==
    IF pn < 0 THEN Frac(Max(0, 50 * pd + 20 * pn), pd)
    ELSE Frac(Min(100 * pd, 50 * pd + 20 * pn), pd)

(* the score for the monthly averages ca (current) and pa (previous):       *)
(* improvementPercent = (ca - pa) / pa * 100                                *)
ImprovementOfAverages(ca, pa) ==
    IF pa.n = 0 THEN Frac(50, 1)
    ELSE ScaledImprovement(100 * (ca.n * pa.d - pa.n * ca.d), pa.n * ca.d)

CurrentMonthWorkouts(wh, m) ==
    SelectSeq(wh, LAMBDA w : DateAtLeast(w, MonthStartDay(m) * TicksPerDay))

(* previousMonthEnd is the first instant of the last day of the month *)
PreviousMonthWorkouts(wh, m) ==
    SelectSeq(wh, LAMBDA w : DateAtLeast(w, MonthStartDay(m - 1) * TicksPerDay)
                             /\ DateAtMost(w, (MonthStartDay(m) - 1) * TicksPerDay))

ImprovementOfMonths(cur, prev) ==
    IF Len(prev) = 0 THEN Frac(50, 1)
    ELSE ImprovementOfAverages(getAverageCalories(cur), getAverageCalories(prev))

calculateStandardizedImprovement(wh, t) ==
    IF Len(wh) < 2 THEN Frac(50, 1)
    ELSE ImprovementOfMonths(CurrentMonthWorkouts(wh, MonthOf(t)),
                             PreviousMonthWorkouts(wh, MonthOf(t)))

UniqueTypes(ws) == {ToLower(OrDefaultStr(ws[i].activity, "unknown")) : i \in 1..Len(ws)}

VarietyOfRecent(recent) ==
    IF Len(recent) = 0 THEN Frac(0, 1)
    ELSE Frac(Min(700, 100 * Cardinality(UniqueTypes(recent))), 7)

calculateStandardizedVariety(wh, t) == VarietyOfRecent(RecentWorkouts(wh, t))

HeartRateOf(w) == IF w.heartRate # 0 THEN w.heartRate ELSE estimateHeartRate(w)
MaxHeartRateOf(w) == 220 - OrDefault(w.age, 25)

RECURSIVE TotalZoneScore(_)
TotalZoneScore(ws) ==
    IF ws = <<>> THEN 0
    ELSE getHeartRateZoneScore(HeartRateOf(Head(ws)), MaxHeartRateOf(Head(ws)))
         + TotalZoneScore(Tail(ws))

IntensityOfUsable(usable) ==
    IF Len(usable) = 0 THEN Frac(50, 1) ELSE Frac(TotalZoneScore(usable), Len(usable))

calculateStandardizedIntensity(wh) ==
    IF Len(wh) = 0 THEN Frac(50, 1)
    ELSE IntensityOfUsable(SelectSeq(LastK(wh, 10),
                                     LAMBDA w : HeartRateOf(w) > 0 /\ MaxHeartRateOf(w) > 0))

Components(c, p, i, v, n) ==
    [consistency |-> c, performance |-> p, improvement |-> i, variety |-> v,
     intensity |-> n]

Clamped(x) == RoundClamp(x.n, x.d)
Rounded(x) == Round(x.n, x.d)

(* the components rounded but not clamped to 0..100 *)
calculateStandardizedComponents_NoClamp(wh, t) ==
    Components(Rounded(calculateStandardizedConsistency(wh, t)),
               Rounded(calculateStandardizedPerformance(wh)),
               Rounded(calculateStandardizedImprovement(wh, t)),
               Rounded(calculateStandardizedVariety(wh, t)),
               Rounded(calculateStandardizedIntensity(wh)))

calculateStandardizedComponents(wh, t) ==
    Components(Clamped(calculateStandardizedConsistency(wh, t)),
               Clamped(calculateStandardizedPerformance(wh)),
               Clamped(calculateStandardizedImprovement(wh, t)),
               Clamped(calculateStandardizedVariety(wh, t)),
               Clamped(calculateStandardizedIntensity(wh)))

(* weights 0.25, 0.25, 0.20, 0.15, 0.15 as twentieths *)
calculateStandardizedScore(comp) ==
    RoundClamp(5 * comp.consistency + 5 * comp.performance + 4 * comp.improvement
               + 3 * comp.variety + 3 * comp.intensity, 20)

performanceLevels ==
    << [min |-> 90, max |-> 100, level |-> "Elite Athlete"],
       [min |-> 75, max |-> 89, level |-> "Advanced"],
       [min |-> 60, max |-> 74, level |-> "Intermediate"],
       [min |-> 45, max |-> 59, level |-> "Developing"],
       [min |-> 30, max |-> 44, level |-> "Beginner"],
       [min |-> 15, max |-> 29, level |-> "Getting Started"],
       [min |-> 0, max |-> 14, level |-> "New User"] >>

(* the rows of performanceLevels that hold score, in table order *)
MatchingLevels(score) ==
    SelectSeq(performanceLevels, LAMBDA l : score >= l.min /\ score <= l.max)

FirstLevelOr(rows, fallback) == IF rows = <<>> THEN fallback ELSE rows[1].level

getStandardizedPerformanceLevel(score) == FirstLevelOr(MatchingLevels(score), "New User")

(* ----------------------------- the store -------------------------------- *)
(* A value of localStorage under one key: no item ("missing"), a string    *)
(* JSON.parse rejects ("garbage"), JSON that is not an array ("nonlist"),  *)
(* or well-formed JSON whose elements (one object for the current          *)
(* snapshot) are items.                                                    *)
StoreValue(kind, items) == [kind |-> kind, items |-> items]
Missing == StoreValue("missing", <<>>)
Garbage == StoreValue("garbage", <<>>)
NonList == StoreValue("nonlist", <<>>)

(* which store calls raise during one invocation *)
FaultModes == {"none", "set", "all"}
getThrows(f) == f = "all"
setThrows(f) == f \in {"set", "all"}

(* getWorkoutHistory: the parsed value, [] when the read or the parse fails *)
getWorkoutHistory(log, f) ==
    IF getThrows(f) \/ log.kind \in {"missing", "garbage"}
    THEN [isArray |-> TRUE, items |-> <<>>]
    ELSE IF log.kind = "nonlist" THEN [isArray |-> FALSE, items |-> <<>>]
    ELSE [isArray |-> TRUE, items |-> log.items]

validateMetricInputs(wh) ==
    IF ~wh.isArray THEN FALSE
    ELSE IF Len(wh.items) = 0 THEN TRUE
    ELSE LET recentWorkout == wh.items[Len(wh.items)]
         IN  /\ ~recentWorkout.isNull
             /\ recentWorkout.calories # 0
             /\ recentWorkout.date # NoDate

(* the scorers read a property of every element: a null element raises *)
componentsThrow(items) == \E i \in 1..Len(items) : items[i].isNull

getBenchmarkStatus(c) ==
    [consistency |-> IF c.consistency >= 80 THEN "Excellent"
                     ELSE IF c.consistency >= 60 THEN "Good"
                     ELSE IF c.consistency >= 40 THEN "Fair" ELSE "Needs Improvement",
     performance |-> IF c.performance >= 90 THEN "Excellent"
                     ELSE IF c.performance >= 70 THEN "Good"
                     ELSE IF c.performance >= 50 THEN "Fair" ELSE "Needs Improvement",
     improvement |-> IF c.improvement >= 70 THEN "Strong Growth"
                     ELSE IF c.improvement >= 50 THEN "Steady"
                     ELSE IF c.improvement >= 30 THEN "Slow Growth" ELSE "Declining",
     variety |-> IF c.variety >= 60 THEN "Excellent"
                 ELSE IF c.variety >= 40 THEN "Good"
                 ELSE IF c.variety >= 20 THEN "Fair" ELSE "Limited",
     intensity |-> IF c.intensity >= 80 THEN "High"
                   ELSE IF c.intensity >= 60 THEN "Moderate"
                   ELSE IF c.intensity >= 40 THEN "Light" ELSE "Very Light"]

(* ------------------------------ doubles --------------------------------- *)
(* The quotient n / d of two small positive integers as the IEEE double the *)
(* code computes: a 53-bit mantissa, the integer nearest to                 *)
(* n * 2^(52 - e) / d where 2^e <= n / d < 2^(e + 1).  Only remainders are  *)
(* kept (MulPow2Mod is a * 2^k modulo m), so that every number stays small. *)
(* A quotient that is not exact never falls midway between two doubles: d  *)
(* would divide n * 2^(53 - e).                                             *)
RECURSIVE MulPow2Mod(_, _, _)
MulPow2Mod(a, k, m) ==
    IF k <= 10 THEN (a * (2^k)) % m ELSE MulPow2Mod((a * 1024) % m, k - 10, m)

RECURSIVE ExponentOf(_, _)
ExponentOf(n, d) ==
    IF n >= 2 * d THEN ExponentOf(n, 2 * d) + 1
    ELSE IF n < d THEN ExponentOf(2 * n, d) - 1
    ELSE 0

QuotientRemainder(n, d) == MulPow2Mod(n, 52 - ExponentOf(n, d), d)

QuotientRoundsUp(n, d) == 2 * QuotientRemainder(n, d) > d

(* d times the rounding error of n / d, in units of the last place *)
QuotientError(n, d) ==
    IF QuotientRoundsUp(n, d) THEN d - QuotientRemainder(n, d)
    ELSE 0 - QuotientRemainder(n, d)

(* d times the rounding error of n / d, in units of 2^-59 *)
ScaledQuotientError(n, d) ==
    IF n = 0 THEN 0 ELSE QuotientError(n, d) * (2^(ExponentOf(n, d) + 7))

(* the doubles of an / ad and bn / bd differ by more than the exact         *)
(* difference plus 2^-51: when the exact difference is 5, the double of the *)
(* difference is above 5 (at exactly 5 + 2^-51 it rounds to the even 5)     *)
DifferenceExceeds(an, ad, bn, bd) ==
    ScaledQuotientError(an, ad) * bd - ScaledQuotientError(bn, bd) * ad > 256 * ad * bd

(* the lowest bits of the mantissa of n / p *)
MantissaLow(n, p, bits) ==
    ((MulPow2Mod(n, 52 - ExponentOf(n, p), p * (2^bits)) \div p)
        + (IF QuotientRoundsUp(n, p) THEN 1 ELSE 0)) % (2^bits)

(* how many bits the product mantissa * 100 has beyond 53: 7 when           *)
(* 100 * n / p >= 2^(7 + e), else 6                                         *)
ProductShift(n, p) == IF 25 * n * 128 > p * (2^(12 + ExponentOf(n, p))) THEN 7 ELSE 6

ProductLow(n, p, bits) == (100 * MantissaLow(n, p, bits)) % (2^bits)

(* the rounding error of the product whose lowest s + 1 bits are low2, in  *)
(* units of the last place of the quotient: to nearest, ties to even        *)
ProductError(low2, s) ==
    IF (low2 % (2^s)) > 2^(s - 1) \/ ((low2 % (2^s)) = 2^(s - 1) /\ (low2 \div (2^s)) = 1)
    THEN 2^s - (low2 % (2^s))
    ELSE 0 - (low2 % (2^s))

(* p times the error of the double (n / p) * 100, in those units *)
PercentError(n, p) ==
    100 * QuotientError(n, p)
        + p * ProductError(ProductLow(n, p, ProductShift(n, p) + 1), ProductShift(n, p))

(* ------------------------------ history --------------------------------- *)
(* the filter keeping the entry that is exactly days old *)
getIndexHistory_KeepsBoundary(hv, days, t, f) ==
    IF getThrows(f) \/ hv.kind \in {"garbage", "nonlist"} THEN <<>>
    ELSE SelectSeq(hv.items, LAMBDA e : e.timestamp >= t - days * TicksPerDay)

(* getIndexHistory: entries newer than t - days; [] on any failure *)
getIndexHistory(hv, days, t, f) ==
    IF getThrows(f) \/ hv.kind \in {"garbage", "nonlist"} THEN <<>>
    ELSE SelectSeq(hv.items, LAMBDA e : e.timestamp > t - days * TicksPerDay)

RECURSIVE TotalScore(_)
TotalScore(h) == IF h = <<>> THEN 0 ELSE Head(h).score + TotalScore(Tail(h))

(* the trend for the sums rs, os and the sizes rn, on of the recent and the *)
(* older entries: the difference of the two means, each a double, against  *)
(* 5 and -5.  An exact difference other than 5 or -5 is at least           *)
(* 1 / (rn * on) away from them, far more than the rounding errors; at an  *)
(* exact 5 or -5 the rounding errors of the two quotients decide.          *)
TrendOfMeans(rs, rn, os, on) ==
    IF rs * on - os * rn > 5 * rn * on THEN "improving"
    ELSE IF rs * on - os * rn < -5 * rn * on THEN "declining"
    ELSE IF rs * on - os * rn = 5 * rn * on /\ DifferenceExceeds(rs, rn, os, on)
    THEN "improving"
    ELSE IF rs * on - os * rn = -5 * rn * on /\ DifferenceExceeds(os, on, rs, rn)
    THEN "declining"
    ELSE "stable"

(* history.slice(-5) and history.slice(0, Math.max(1, history.length - 5)) *)
RecentScores(hist) == LastK(hist, 5)
OlderScores(hist) == SubSeq(hist, 1, Max(1, Len(hist) - 5))

(* the trend classified from two entries on *)
TrendOfHistory_FromTwo(hist) ==
    IF Len(hist) < 2 THEN "stable"
    ELSE TrendOfMeans(TotalScore(RecentScores(hist)), Len(RecentScores(hist)),
                      TotalScore(OlderScores(hist)), Len(OlderScores(hist)))

TrendOfHistory(hist) ==
    IF Len(hist) < 3 THEN "stable"
    ELSE TrendOfMeans(TotalScore(RecentScores(hist)), Len(RecentScores(hist)),
                      TotalScore(OlderScores(hist)), Len(OlderScores(hist)))

calculateTrend(hv, t, f) == TrendOfHistory(getIndexHistory(hv, 14, t, f))

(* ((n / p) * 100).toFixed(1) in tenths for n >= 0, p > 0: the nearest      *)
(* tenth; when the exact value lies midway between two tenths, the larger   *)
(* one unless the double computed for it lies below the midpoint            *)
ToFixed1Abs(n, p) ==
    IF (2000 * n) % (2 * p) = p
    THEN (1000 * n) \div p + (IF PercentError(n, p) >= 0 THEN 1 ELSE 0)
    ELSE Round(1000 * n, p)

(* toFixed formats the magnitude and prefixes the sign *)
ToFixed1(n, d) == IF n >= 0 THEN ToFixed1Abs(n, d) ELSE 0 - ToFixed1Abs(0 - n, d)

(* the difference taken the other way round *)
Comparison_Reversed(cur, prev) ==
    [current |-> cur, previous |-> prev, difference |-> prev - cur,
     percentChange |-> IF prev > 0 THEN ToFixed1(prev - cur, prev) ELSE 0,
     trend |-> IF prev - cur > 0 THEN "improving"
               ELSE IF prev - cur < 0 THEN "declining" ELSE "stable"]

(* the comparison of the scores of the current and the previous entry *)
Comparison(cur, prev) ==
    [current |-> cur, previous |-> prev, difference |-> cur - prev,
     percentChange |-> IF prev > 0 THEN ToFixed1(cur - prev, prev) ELSE 0,
     trend |-> IF cur - prev > 0 THEN "improving"
               ELSE IF cur - prev < 0 THEN "declining" ELSE "stable"]

CompareEntries(hist, previousEntries) ==
    IF Len(hist) < 2 THEN <<>>
    ELSE IF Len(previousEntries) = 0 THEN <<>>
    ELSE <<Comparison(hist[Len(hist)].score, previousEntries[Len(previousEntries)].score)>>

CompareHistory(hist, cutoffDate) ==
    CompareEntries(hist, SelectSeq(hist, LAMBDA e : e.timestamp < cutoffDate))

(* compareWithPrevious: <<>> is null, percentChange is in tenths of a percent *)
compareWithPrevious(hv, days, t, f) ==
    CompareHistory(getIndexHistory(hv, days * 2, t, f), t - days * TicksPerDay)

getPeriodComparisons(hv, t, f) ==
    [weekly |-> compareWithPrevious(hv, 7, t, f),
     monthly |-> compareWithPrevious(hv, 30, t, f)]

(* position of the entry of acc on calendar day d, 0 if none *)
DayIndex(acc, d) ==
    IF \E i \in 1..Len(acc) : DayOf(acc[i].timestamp) = d
    THEN CHOOSE i \in 1..Len(acc) : DayOf(acc[i].timestamp) = d
    ELSE 0

(* the Map keeping the first entry it met for each day *)
SetDaily_KeepsFirst(acc, entry, k) == IF k = 0 THEN Append(acc, entry) ELSE acc

(* dailyEntries.set(dateKey, entry) unless the day has an entry at least as late *)
SetDaily(acc, entry, k) ==
    IF k = 0 THEN Append(acc, entry)
    ELSE IF entry.timestamp > acc[k].timestamp THEN [acc EXCEPT ![k] = entry]
    ELSE acc

PutDaily(acc, entry) == SetDaily(acc, entry, DayIndex(acc, DayOf(entry.timestamp)))

(* the Map of dedupeDailyEntries after the entries of h, in insertion order *)
RECURSIVE dailyEntries(_)
dailyEntries(h) ==
    IF h = <<>> THEN <<>>
    ELSE PutDaily(dailyEntries(SubSeq(h, 1, Len(h) - 1)), h[Len(h)])

(* the sort with the comparison reversed: latest first *)
InsertByTimestamp_Descending(sorted, x) ==
    SelectSeq(sorted, LAMBDA e : e.timestamp >= x.timestamp) \o <<x>>
        \o SelectSeq(sorted, LAMBDA e : e.timestamp < x.timestamp)

(* Array.prototype.sort by timestamp (stable insertion) *)
InsertByTimestamp(sorted, x) ==
    SelectSeq(sorted, LAMBDA e : e.timestamp <= x.timestamp) \o <<x>>
        \o SelectSeq(sorted, LAMBDA e : e.timestamp > x.timestamp)

RECURSIVE SortByTimestamp(_)
SortByTimestamp(s) ==
    IF s = <<>> THEN <<>>
    ELSE InsertByTimestamp(SortByTimestamp(SubSeq(s, 1, Len(s) - 1)), s[Len(s)])

(* the entries sorted, none dropped *)
dedupeDailyEntries_SortOnly(h) == SortByTimestamp(h)

dedupeDailyEntries(h) == SortByTimestamp(dailyEntries(h))

HistoryEntry(indexData) ==
    [score |-> indexData.score, level |-> indexData.level,
     components |-> indexData.components, trend |-> indexData.trend,
     timestamp |-> indexData.lastUpdated, workoutCount |-> indexData.workoutCount]

(* setItem of the cleaned list kept out of pushed: ok is the return value   *)
(* of saveToHistory, value what the key holds after it                      *)
WriteHistory(hv, pushed, kept, f) ==
    IF setThrows(f) THEN [ok |-> FALSE, value |-> hv, evicted |-> 0]
    ELSE [ok |-> TRUE, value |-> StoreValue("list", dedupeDailyEntries(kept)),
          evicted |-> Len(pushed) - Len(kept)]

(* the filter keeping the entry that is exactly MAX_HISTORY_DAYS old *)
CleanOldEntries_KeepsBoundary(pushed, cutoffDate) ==
    SelectSeq(pushed, LAMBDA e : e.timestamp >= cutoffDate)

CleanOldEntries(pushed, cutoffDate) == SelectSeq(pushed, LAMBDA e : e.timestamp > cutoffDate)

saveToHistory(hv, indexData, t, f) ==
    IF getThrows(f) \/ hv.kind \in {"garbage", "nonlist"}
    THEN [ok |-> FALSE, value |-> hv, evicted |-> 0]
    ELSE WriteHistory(hv, Append(hv.items, HistoryEntry(indexData)),
                      CleanOldEntries(Append(hv.items, HistoryEntry(indexData)),
                                      t - MAX_HISTORY_DAYS * TicksPerDay), f)

(* the snapshot written only when the key holds none yet *)
saveCurrentIndex_KeepsFirst(cv, indexData, f) ==
    IF setThrows(f) \/ cv.kind = "json" THEN cv ELSE StoreValue("json", <<indexData>>)

(* saveCurrentIndex: what the key holds after it *)
saveCurrentIndex(cv, indexData, f) ==
    IF setThrows(f) THEN cv ELSE StoreValue("json", <<indexData>>)

(* getCurrentIndex: null when the read or the parse fails or the key holds *)
(* nothing, else whatever JSON the key holds (kind "json": the snapshot)   *)
NullValue == StoreValue("null", <<>>)

(* without the catch: the value JSON.parse rejected is what the caller faces *)
getCurrentIndex_NoCatch(cv, f) ==
    IF getThrows(f) \/ cv.kind = "missing" THEN NullValue ELSE cv

getCurrentIndex(cv, f) ==
    IF getThrows(f) \/ cv.kind \in {"missing", "garbage"} THEN NullValue ELSE cv

getDefaultIndex(t) ==
    [score |-> 0, displayScore |-> 0, level |-> "Getting Started",
     components |-> Components(0, 0, 50, 0, 0),
     trend |-> "stable", lastUpdated |-> t, workoutCount |-> 0,
     periodData |-> [weekly |-> <<>>, monthly |-> <<>>],
     benchmarksMet |-> <<>>]

(* ---------------------------- calculateIndex ---------------------------- *)
IndexData(score, components, trend, t, workoutCount, periodData) ==
    [score |-> score, displayScore |-> score,
     level |-> getStandardizedPerformanceLevel(score),
     components |-> components, trend |-> trend, lastUpdated |-> t,
     workoutCount |-> workoutCount, periodData |-> periodData,
     benchmarksMet |-> <<getBenchmarkStatus(components)>>]

(* lines 63 to 82, for the components of line 60 *)
IndexDataOf(components, wh, hv, t, f) ==
    IndexData(calculateStandardizedScore(components), components, calculateTrend(hv, t, f),
              t, Len(wh.items), getPeriodComparisons(hv, t, f))

(* the try block persisting the default it returns for invalid input *)
TryBlock_SavesDefault(wh, hv, t, f) ==
    IF ~validateMetricInputs(wh)
    THEN [threw |-> FALSE, computed |-> TRUE, value |-> getDefaultIndex(t)]
    ELSE IF componentsThrow(wh.items)
    THEN [threw |-> TRUE, computed |-> FALSE, value |-> getDefaultIndex(t)]
    ELSE [threw |-> FALSE, computed |-> TRUE,
          value |-> IndexDataOf(calculateStandardizedComponents(wh.items, t), wh, hv, t, f)]

(* the try block for the workout history wh: threw, or the value returned;  *)
(* computed tells a computed result from the default for invalid input      *)
TryBlock(wh, hv, t, f) ==
    IF ~validateMetricInputs(wh)
    THEN [threw |-> FALSE, computed |-> FALSE, value |-> getDefaultIndex(t)]
    ELSE IF componentsThrow(wh.items)
    THEN [threw |-> TRUE, computed |-> FALSE, value |-> getDefaultIndex(t)]
    ELSE [threw |-> FALSE, computed |-> TRUE,
          value |-> IndexDataOf(calculateStandardizedComponents(wh.items, t), wh, hv, t, f)]

calculateIndexBody(log, hv, t, f) == TryBlock(getWorkoutHistory(log, f), hv, t, f)

(* without a catch clause what the body threw escapes to the caller *)
NoCatch(body) ==
    [raised |-> body.threw, caught |-> FALSE, computed |-> body.computed, value |-> body.value]

(* the outcome when the catch clause handles what the body threw *)
Catch(body) ==
    [raised |-> FALSE, caught |-> body.threw, computed |-> body.computed, value |-> body.value]

(* calculateIndex: the catch turns an exception of the body into the default *)
calculateIndex(log, hv, t, f) == Catch(calculateIndexBody(log, hv, t, f))

(* ------------------------------ workout log ----------------------------- *)
WorkoutInputs(t) ==
    { Workout(FALSE, t, 300, "running", 30, 0, 0, 0, ""),
      Workout(FALSE, t, 500, "Yoga", 60, 150, 70, 60, "female"),
      Workout(FALSE, t, 0, "running", 30, 0, 0, 0, ""),
      Workout(FALSE, NoDate, 300, "running", 30, 0, 0, 0, ""),
      Workout(TRUE, NoDate, 0, "", 0, 0, 0, 0, "") }

ClockSteps == {1, TicksPerDay, 30 * TicksPerDay, MAX_HISTORY_DAYS * TicksPerDay}

(* What the most recent step was: a record of the calculateIndex call that *)
(* has just returned (its argument, its outcome and what it met in the     *)
(* store), or NoOp after any other step.                                   *)
NoOp ==
    [user |-> "", raised |-> FALSE, caught |-> FALSE, computed |-> FALSE,
     result |-> <<>>, saved |-> FALSE, evicted |-> 0, hadSameDay |-> FALSE,
     fault |-> "none", logWas |-> "", lastRecordLacksField |-> FALSE,
     historyWas |-> "", at |-> 0, entries |-> 0, repeat |-> FALSE,
     sameAsBefore |-> TRUE]

(* What the most recent step read: a record of the call of one of the       *)
(* read-only methods that has just returned, or NoRead after any other step *)
(* (trend, list, comparison or stored holds what it returned, by its kind) *)
ReadOf(op, u, days, f, trend, list, comparison, stored) ==
    [op |-> op, user |-> u, days |-> days, fault |-> f,
     trend |-> trend, list |-> list, comparison |-> comparison, stored |-> stored]

NoRead == ReadOf("", "", 0, "none", "", <<>>, <<>>, NullValue)

(* The invocations of calculateIndex that overlap in time (one per browsing *)
(* context sharing the store): where each one stands, what it holds in its *)
(* local variables, at which step it read and wrote the history, and, in   *)
(* the fields named s..., what it would hold and what the keys of its user *)
(* would hold had no other invocation touched the store meanwhile.         *)
Procs == {"p1", "p2"}

Idle ==
    [pc |-> "idle", user |-> "", components |-> <<>>, workoutCount |-> 0,
     trend |-> "", weekly |-> <<>>, monthly |-> <<>>, result |-> <<>>,
     read |-> NullValue, readStep |-> 0, writeStep |-> 0,
     sTrend |-> "", sWeekly |-> <<>>, sMonthly |-> <<>>, sResult |-> <<>>,
     sRead |-> NullValue, sCur |-> NullValue, sHist |-> NullValue]

NoInvocations == [p \in Procs |-> Idle]

(* the outcomes a and b agree on everything but the time they were taken *)
SameOutcome(a, b) ==
    /\ a.score = b.score
    /\ a.level = b.level
    /\ a.components = b.components
    /\ a.trend = b.trend
    /\ a.periodData = b.periodData

(* the call for u with fault mode f follows, with no step between, a call   *)
(* for u on the same calendar day; both met a working store                 *)
Repeats(u, f) ==
    /\ lastOp.user = u
    /\ lastOp.result # <<>>
    /\ lastOp.fault = "none" /\ f = "none"
    /\ DayOf(lastOp.at) = DayOf(now)

(* the log as calculateIndex meets it: "empty", "records" or its bad kind *)
LogShape(log) ==
    IF log.kind \in {"garbage", "nonlist"} THEN log.kind
    ELSE IF Len(log.items) = 0 THEN "empty" ELSE "records"

HistoryShape(hv) ==
    IF hv.kind \in {"garbage", "nonlist"} THEN hv.kind
    ELSE IF Len(hv.items) = 0 THEN "empty" ELSE "entries"

(* the most recent record is an object without calories or without a date *)
LastRecordLacksField(log) ==
    /\ log.kind = "list"
    /\ Len(log.items) > 0
    /\ ~log.items[Len(log.items)].isNull
    /\ \/ log.items[Len(log.items)].calories = 0
       \/ log.items[Len(log.items)].date = NoDate

(* ------------------------------- behaviour ------------------------------ *)
Init ==
    /\ now = 0
    /\ workoutLog \in {Missing, Garbage, NonList}
    /\ history \in [Users -> {Missing, Garbage, NonList}]
    /\ current = history
    /\ lastOp = NoOp
    /\ lastRead = NoRead
    /\ inv = NoInvocations
    /\ steps = 0

(* the clock moves on *)
AdvanceClock(d) ==
    /\ steps < MaxSteps
    /\ now' = now + d
    /\ steps' = steps + 1
    /\ lastOp' = NoOp
    /\ lastRead' = NoRead
    /\ UNCHANGED <<workoutLog, current, history, inv>>

(* the logging subsystem saves a workout *)
LogWorkout(w) ==
    /\ workoutLog.kind \in {"missing", "list"}
    /\ steps < MaxSteps
    /\ workoutLog' = StoreValue("list", Append(workoutLog.items, w))
    /\ steps' = steps + 1
    /\ lastOp' = NoOp
    /\ lastRead' = NoRead
    /\ UNCHANGED <<now, current, history, inv>>

(* the call returns r after saveToHistory has returned h *)
Return(u, f, r, h) ==
    /\ current' = IF r.computed
                  THEN [current EXCEPT ![u] = saveCurrentIndex(@, r.value, f)]
                  ELSE current
    /\ history' = IF r.computed THEN [history EXCEPT ![u] = h.value] ELSE history
    /\ lastOp' = [user |-> u, raised |-> r.raised, caught |-> r.caught,
                  computed |-> r.computed,
                  result |-> IF r.raised THEN <<>> ELSE <<r.value>>,
                  saved |-> r.computed /\ h.ok,
                  evicted |-> IF r.computed THEN h.evicted ELSE 0,
                  hadSameDay |-> \E i \in 1..Len(history[u].items) :
                      DayOf(history[u].items[i].timestamp) = DayOf(now),
                  fault |-> f, logWas |-> LogShape(workoutLog),
                  lastRecordLacksField |-> LastRecordLacksField(workoutLog),
                  historyWas |-> HistoryShape(history[u]),
                  at |-> now,
                  entries |-> IF r.computed THEN Len(h.value.items)
                              ELSE Len(history[u].items),
                  repeat |-> Repeats(u, f),
                  sameAsBefore |->
                      Repeats(u, f) =>
                          /\ ~r.raised
                          /\ SameOutcome(lastOp.result[1], r.value)
                          /\ lastOp.entries = (IF r.computed THEN Len(h.value.items)
                                               ELSE Len(history[u].items))]
    /\ lastRead' = NoRead

Save(u, f, r) == Return(u, f, r, saveToHistory(history[u], r.value, now, f))

CalculateIndex(u, f) ==
    /\ steps < MaxSteps
    /\ Save(u, f, calculateIndex(workoutLog, history[u], now, f))
    /\ steps' = steps + 1
    /\ UNCHANGED <<now, workoutLog, inv>>

Next ==
    \/ \E d \in ClockSteps : AdvanceClock(d)
    \/ \E w \in WorkoutInputs(now) : LogWorkout(w)
    \/ \E u \in Users, f \in FaultModes : CalculateIndex(u, f)

Spec == Init /\ [][Next]_vars

(* ------------------ scoring arbitrary workout logs ---------------------- *)
(* A second specification for the claims about the scorers: the engine     *)
(* starts on a log drawn from ScoreLogs and is invoked once.               *)
MaxRepeat == 31

RECURSIVE Repeat(_, _)
Repeat(w, k) == IF k <= 0 THEN <<>> ELSE <<w>> \o Repeat(w, k - 1)

(* the first instant of the second month, later on its first day, and the  *)
(* middle of that month                                                    *)
ScoreNows ==
    {MonthStartDay(1) * TicksPerDay, MonthStartDay(1) * TicksPerDay + 1,
     (MonthStartDay(1) + 15) * TicksPerDay}

ScoreDates(t) == {t, t - TicksPerDay, t - TicksPerDay + 1, t - 31 * TicksPerDay}

ScoreInputs(d) == WorkoutInputs(d) \cup {Workout(FALSE, d, -200, "boxing", 45, 0, 18, 0, "")}

ScoreLogs(t) ==
    { Repeat(w, k) \o tail :
        w \in UNION { {Workout(FALSE, d, 300, "running", 30, 0, 0, 0, ""),
                       Workout(FALSE, d, 500, "Yoga", 60, 150, 70, 60, "female")} :
                      d \in ScoreDates(t) },
        k \in 0..MaxRepeat,
        tail \in {<<>>} \cup UNION { {<<r>> : r \in ScoreInputs(d)} : d \in ScoreDates(t) } }

(* n workouts of 30 minutes of running and 300 calories, with no biometrics, *)
(* one a day, the most recent one at time last                              *)
RECURSIVE DailyWorkouts(_, _)
DailyWorkouts(last, n) ==
    IF n = 0 THEN <<>>
    ELSE Append(DailyWorkouts(last - TicksPerDay, n - 1),
                Workout(FALSE, last, 300, "running", 30, 0, 0, 0, ""))

(* 30 such workouts, the oldest no more than 30 days before t *)
DailyLogs(t) == {DailyWorkouts(t - back, 30) : back \in 0..TicksPerDay}

InitScore ==
    /\ now \in ScoreNows
    /\ workoutLog \in {StoreValue("list", l) : l \in ScoreLogs(now) \cup DailyLogs(now)}
    /\ history = [u \in Users |-> Missing]
    /\ current = [u \in Users |-> Missing]
    /\ lastOp = NoOp
    /\ lastRead = NoRead
    /\ inv = NoInvocations
    /\ steps = 0

ScoreOnce(u) == lastOp = NoOp /\ CalculateIndex(u, "none")

NextScore == \E u \in Users : ScoreOnce(u)

SpecScore == InitScore /\ [][NextScore]_vars

(* the period lengths the engine and its callers pass to getIndexHistory *)
HistoryWindows == {14, 30, 60}

(* ------------------- reading a persisted history ------------------------ *)
(* A third specification for the claims about the read-only methods and    *)
(* the analytics over a history: the store starts with the history of one  *)
(* user drawn from HistoryValues, lists of the shape saveToHistory writes   *)
(* (sorted by timestamp, one entry per day), and the methods are called.    *)
MaxCalls == 2

(* the instant the store is first looked at: one tick into a day *)
HistNow == 400 * TicksPerDay + 1

(* an entry as saveToHistory writes it, for a snapshot of the given score *)
FixtureEntry(score, ts) ==
    [score |-> score, level |-> getStandardizedPerformanceLevel(score),
     components |-> Components(score, score, score, score, score),
     trend |-> "stable", timestamp |-> ts, workoutCount |-> 0]

(* the scores of the entries, oldest first *)
ScoreLists ==
    { <<>>, <<60>>, <<60, 66>>, <<10, 90>>, <<80, 29>>, <<0, 50>>,
      <<10, 15, 20>>, <<10, 20, 30>>, <<90, 50, 10>>, <<20, 15, 10>>,
      <<10, 16, 16, 16, 16, 16>>, <<10, 15, 15, 15, 15, 15>>,
      <<40, 40, 10, 10, 10, 10, 10>>,
      <<3, 4, 4, 4, 4, 8, 9, 9, 9, 9>>, <<8, 9, 9, 9, 9, 3, 4, 4, 4, 4>> }

(* where the entries lie: gap days apart, the newest one last days and      *)
(* shift ticks before the first look                                        *)
Layouts ==
    { [gap |-> g, last |-> l, shift |-> sh] :
        g \in {1, 8, 30}, l \in {0, 8}, sh \in {0, 1} }

(* the newest entry lies at time t, each earlier one gap ticks before the next *)
RECURSIVE EntriesBefore(_, _, _)
EntriesBefore(scores, t, gap) ==
    IF scores = <<>> THEN <<>>
    ELSE Append(EntriesBefore(SubSeq(scores, 1, Len(scores) - 1), t - gap, gap),
                FixtureEntry(scores[Len(scores)], t))

HistoryAt(scores, t, layout) ==
    EntriesBefore(scores, t - layout.last * TicksPerDay - layout.shift,
                  layout.gap * TicksPerDay)

HistoryValues(t) ==
    {Garbage, NonList}
        \cup { StoreValue(IF sc = <<>> THEN "missing" ELSE "list", HistoryAt(sc, t, la)) :
                 sc \in ScoreLists, la \in Layouts }

InitHist ==
    /\ now = HistNow
    /\ workoutLog = Missing
    /\ history \in { [u \in Users |-> IF u = "u1" THEN hv ELSE Missing] :
                        hv \in HistoryValues(now) }
    /\ current \in { [u \in Users |-> cv] : cv \in {Missing, Garbage} }
    /\ lastOp = NoOp
    /\ lastRead = NoRead
    /\ inv = NoInvocations
    /\ steps = 0

(* a read-only method returns; the store is not written *)
ReturnRead(read) ==
    /\ lastRead = NoRead
    /\ steps < MaxCalls
    /\ lastRead' = read
    /\ lastOp' = NoOp
    /\ steps' = steps + 1
    /\ UNCHANGED <<now, workoutLog, current, history, inv>>

GetCurrentIndex(u, f) ==
    ReturnRead(ReadOf("getCurrentIndex", u, 0, f, "", <<>>, <<>>,
                      getCurrentIndex(current[u], f)))

GetIndexHistory(u, days, f) ==
    ReturnRead(ReadOf("getIndexHistory", u, days, f, "",
                      getIndexHistory(history[u], days, now, f), <<>>, NullValue))

CalculateTrend(u, f) ==
    ReturnRead(ReadOf("calculateTrend", u, 14, f, calculateTrend(history[u], now, f),
                      <<>>, <<>>, NullValue))

CompareWithPrevious(u, days, f) ==
    ReturnRead(ReadOf("compareWithPrevious", u, days, f, "", <<>>,
                      compareWithPrevious(history[u], days, now, f), NullValue))

(* calculateIndex over a persisted history, with a working store *)
CalculateOver(u) == steps < MaxCalls /\ CalculateIndex(u, "none")

NextHist ==
    \/ \E u \in Users, f \in FaultModes : GetCurrentIndex(u, f)
    \/ \E u \in Users, days \in HistoryWindows, f \in FaultModes : GetIndexHistory(u, days, f)
    \/ \E u \in Users, f \in FaultModes : CalculateTrend(u, f)
    \/ \E u \in Users, days \in {7, 30}, f \in FaultModes : CompareWithPrevious(u, days, f)
    \/ \E u \in Users : CalculateOver(u)

SpecHist == InitHist /\ [][NextHist]_vars

(* ---------------------- overlapping invocations -------------------------- *)
(* A fourth specification: two invocations of calculateIndex, each for some *)
(* user, run against the same store one store call at a time (the store is  *)
(* shared by every browsing context of the origin).  A step is one getItem  *)
(* or setItem together with the computation and the clock reading next to   *)
(* it; the clock may move on between any two steps.  The store works.       *)
MaxTicks == 1

(* the first instant of a day *)
RaceNow == 100 * TicksPerDay

(* the keys `${STORAGE_KEY}_${userId}` and `${HISTORY_KEY}_${userId}` *)
currentKey(u) == u

(* one history key for every user *)
historyKey_Shared(u) == "u1"

historyKey(u) == u

(* the list an append is based on, given the value its getItem returned     *)
(* and the value under the key when its setItem runs: as if the two store   *)
(* calls were one                                                           *)
BasisOfWrite_Atomic(readValue, storedValue) == storedValue

BasisOfWrite(readValue, storedValue) == readValue

RaceHistories(t) ==
    { Missing,
      StoreValue("list", <<FixtureEntry(60, t - TicksPerDay)>>),
      StoreValue("list", <<FixtureEntry(60, t - 8 * TicksPerDay),
                           FixtureEntry(66, t - TicksPerDay)>>) }

InitRace ==
    /\ now = RaceNow
    /\ workoutLog \in {Missing, StoreValue("list", <<Workout(FALSE, RaceNow, 300, "running",
                                                              30, 0, 0, 0, "")>>)}
    /\ history \in [Users -> RaceHistories(RaceNow)]
    /\ current = [u \in Users |-> Missing]
    /\ lastOp = NoOp
    /\ lastRead = NoRead
    /\ inv = NoInvocations
    /\ steps = 0

(* lines 52 to 60: the invocation for u after getWorkoutHistory returned wh *)
BeginOf(u, wh) ==
    IF ~validateMetricInputs(wh) \/ componentsThrow(wh.items)
    THEN [Idle EXCEPT !.pc = "done", !.user = u,
                      !.result = <<getDefaultIndex(now)>>,
                      !.sResult = <<getDefaultIndex(now)>>,
                      !.sCur = current[currentKey(u)], !.sHist = history[historyKey(u)]]
    ELSE [Idle EXCEPT !.pc = "scored", !.user = u,
                      !.components = <<calculateStandardizedComponents(wh.items, now)>>,
                      !.workoutCount = Len(wh.items),
                      !.sCur = current[currentKey(u)], !.sHist = history[historyKey(u)]]

(* a step of invocation p that leaves the store as it is *)
LocalStep(p, after) ==
    /\ inv' = [inv EXCEPT ![p] = after]
    /\ steps' = steps + 1
    /\ UNCHANGED <<now, workoutLog, current, history, lastOp, lastRead>>

BeginInvocation(p, u) ==
    /\ inv[p].pc = "idle"
    /\ LocalStep(p, BeginOf(u, getWorkoutHistory(workoutLog, "none")))

(* line 69: calculateTrend reads the history *)
ReadTrend(p) ==
    /\ inv[p].pc = "scored"
    /\ LocalStep(p, [inv[p] EXCEPT
            !.pc = "gotTrend",
            !.trend = calculateTrend(history[historyKey(inv[p].user)], now, "none"),
            !.sTrend = calculateTrend(inv[p].sHist, now, "none")])

(* line 490: the weekly comparison reads the history *)
ReadWeekly(p) ==
    /\ inv[p].pc = "gotTrend"
    /\ LocalStep(p, [inv[p] EXCEPT
            !.pc = "gotWeekly",
            !.weekly = compareWithPrevious(history[historyKey(inv[p].user)], 7, now, "none"),
            !.sWeekly = compareWithPrevious(inv[p].sHist, 7, now, "none")])

(* line 491: the monthly comparison reads the history *)
ReadMonthly(p) ==
    /\ inv[p].pc = "gotWeekly"
    /\ LocalStep(p, [inv[p] EXCEPT
            !.pc = "gotMonthly",
            !.monthly = compareWithPrevious(history[historyKey(inv[p].user)], 30, now, "none"),
            !.sMonthly = compareWithPrevious(inv[p].sHist, 30, now, "none")])

(* lines 72 to 82 for the trend and the comparisons read before *)
IndexDataFrom(components, workoutCount, trend, weekly, monthly) ==
    IndexData(calculateStandardizedScore(components), components, trend, now, workoutCount,
              [weekly |-> weekly, monthly |-> monthly])

(* indexData with the trend taken after the append: over the history that *)
(* already holds the entry of this invocation                              *)
MadeBy_TrendAfterSave(i) ==
    IndexDataFrom(i.components[1], i.workoutCount,
                  calculateTrend(saveToHistory(history[historyKey(i.user)],
                                               IndexDataFrom(i.components[1], i.workoutCount,
                                                             i.trend, i.weekly, i.monthly),
                                               now, "none").value,
                                 now, "none"),
                  i.weekly, i.monthly)

MadeBy(i) ==
    IndexDataFrom(i.components[1], i.workoutCount, i.trend, i.weekly, i.monthly)

MadeAloneBy(i) ==
    IndexDataFrom(i.components[1], i.workoutCount, i.sTrend, i.sWeekly, i.sMonthly)

(* lines 72 to 85: indexData is built and saveCurrentIndex writes it *)
WriteCurrent(p) ==
    /\ inv[p].pc = "gotMonthly"
    /\ inv' = [inv EXCEPT ![p] = [@ EXCEPT
            !.pc = "savedCurrent",
            !.result = <<MadeBy(inv[p])>>,
            !.sResult = <<MadeAloneBy(inv[p])>>,
            !.sCur = saveCurrentIndex(@, MadeAloneBy(inv[p]), "none")]]
    /\ current' = [current EXCEPT ![currentKey(inv[p].user)] =
                       saveCurrentIndex(@, MadeBy(inv[p]), "none")]
    /\ steps' = steps + 1
    /\ UNCHANGED <<now, workoutLog, history, lastOp, lastRead>>

(* line 597: saveToHistory reads the list; a value that is no list makes it *)
(* give up                                                                  *)
AfterRead(i, hv, step) ==
    [i EXCEPT !.pc = IF hv.kind \in {"garbage", "nonlist"} THEN "done" ELSE "gotHistory",
              !.read = hv, !.readStep = step, !.sRead = i.sHist]

ReadHistory(p) ==
    /\ inv[p].pc = "savedCurrent"
    /\ LocalStep(p, AfterRead(inv[p], history[historyKey(inv[p].user)], steps + 1))

(* lines 600 to 616 on the list hv: what setItem stores *)
Appended(hv, indexData) ==
    WriteHistory(hv, Append(hv.items, HistoryEntry(indexData)),
                 CleanOldEntries(Append(hv.items, HistoryEntry(indexData)),
                                 now - MAX_HISTORY_DAYS * TicksPerDay), "none").value

(* lines 600 to 616: the entry is pushed on the list read, old entries and  *)
(* same-day entries are dropped, setItem writes the list                    *)
WriteBack(p) ==
    /\ inv[p].pc = "gotHistory"
    /\ history' = [history EXCEPT ![historyKey(inv[p].user)] =
                       Appended(BasisOfWrite(inv[p].read, @), inv[p].result[1])]
    /\ inv' = [inv EXCEPT ![p] = [@ EXCEPT
            !.pc = "done", !.writeStep = steps + 1,
            !.sHist = Appended(inv[p].sRead, inv[p].sResult[1])]]
    /\ steps' = steps + 1
    /\ UNCHANGED <<now, workoutLog, current, lastOp, lastRead>>

(* the clock moves on while invocations are under way *)
Tick ==
    /\ now < RaceNow + MaxTicks
    /\ now' = now + 1
    /\ steps' = steps + 1
    /\ UNCHANGED <<workoutLog, current, history, lastOp, lastRead, inv>>

NextRace ==
    \/ Tick
    \/ \E p \in Procs, u \in Users : BeginInvocation(p, u)
    \/ \E p \in Procs : ReadTrend(p)
    \/ \E p \in Procs : ReadWeekly(p)
    \/ \E p \in Procs : ReadMonthly(p)
    \/ \E p \in Procs : WriteCurrent(p)
    \/ \E p \in Procs : ReadHistory(p)
    \/ \E p \in Procs : WriteBack(p)

SpecRace == InitRace /\ [][NextRace]_vars

(* ------------------------------- claims --------------------------------- *)
Returned == lastOp.result[1]
Called == lastOp.user # ""
PersistedHistory == history[lastOp.user]

(* the aggregate of section 4.2 of the specification, weights in hundredths *)
SpecifiedScore(c) ==
    RoundClamp(25 * c.consistency + 25 * c.performance + 20 * c.improvement
               + 15 * c.variety + 15 * c.intensity, 100)

(* C1: every value calculateIndex returns (computed or default), and every  *)
(* snapshot persisted as current or in a history, has                       *)
(* score = round(clamp(weighted sum of its own components, 0, 100)).        *)
C1_ScoreIsWeightedSum ==
    /\ (Called /\ lastOp.result # <<>>) => Returned.score = SpecifiedScore(Returned.components)
    /\ \A u \in Users :
        /\ current[u].kind = "json" =>
              current[u].items[1].score = SpecifiedScore(current[u].items[1].components)
        /\ \A i \in 1..Len(history[u].items) :
              history[u].items[i].score = SpecifiedScore(history[u].items[i].components)

(* the level table as the claim states it *)
LevelTable ==
    << [lo |-> 0, hi |-> 14, label |-> "New User"],
       [lo |-> 15, hi |-> 29, label |-> "Getting Started"],
       [lo |-> 30, hi |-> 44, label |-> "Beginner"],
       [lo |-> 45, hi |-> 59, label |-> "Developing"],
       [lo |-> 60, hi |-> 74, label |-> "Intermediate"],
       [lo |-> 75, hi |-> 89, label |-> "Advanced"],
       [lo |-> 90, hi |-> 100, label |-> "Elite Athlete"] >>

RowsOf(score) == {k \in 1..Len(LevelTable) : LevelTable[k].lo <= score /\ score <= LevelTable[k].hi}

(* C2: the level of every value calculateIndex returns (computed or         *)
(* default) is the label of the one range of the level table that contains  *)
(* its score; the ranges are pairwise disjoint and cover 0..100.            *)
C2_LevelMatchesScore ==
    /\ \A x \in 0..100 : Cardinality(RowsOf(x)) = 1
    /\ \A x \in 0..100 : getStandardizedPerformanceLevel(x) =
                            LevelTable[CHOOSE k \in RowsOf(x) : TRUE].label
    /\ (Called /\ lastOp.result # <<>>) =>
          \E k \in RowsOf(Returned.score) : Returned.level = LevelTable[k].label

(* C3: for every workout log, each of the five components of the result of  *)
(* calculateIndex is an integer in 0..100, and so is the score.             *)
C3_ComponentsInRange ==
    (Called /\ lastOp.result # <<>>) =>
        /\ Returned.components.consistency \in 0..100
        /\ Returned.components.performance \in 0..100
        /\ Returned.components.improvement \in 0..100
        /\ Returned.components.variety \in 0..100
        /\ Returned.components.intensity \in 0..100
        /\ Returned.score \in 0..100

(* a computed result for a log of more than 30 records, the last one with   *)
(* negative calories: consistency is capped at 100                          *)
C3_Witness ==
    /\ Called /\ lastOp.computed
    /\ Len(workoutLog.items) > 30
    /\ workoutLog.items[Len(workoutLog.items)].calories < 0
    /\ Returned.components.consistency = 100

OnePerDay(items) ==
    \A i, j \in 1..Len(items) :
        i # j => DayOf(items[i].timestamp) # DayOf(items[j].timestamp)

(* C4: after any sequence of calculateIndex calls and clock advances, the   *)
(* persisted history of a user holds at most one entry per calendar day.    *)
C4_OneEntryPerDay == \A u \in Users : OnePerDay(history[u].items)

(* an append on a day that already had an entry has just been persisted *)
C4_Witness == Called /\ lastOp.saved /\ lastOp.hadSameDay /\ Len(PersistedHistory.items) = 1

(* C5: when a snapshot is appended on a calendar day that already has an    *)
(* entry (clock readings non-decreasing, possibly equal), the entry kept    *)
(* for that day is the one of the later append.                             *)
C5_LaterAppendKept ==
    (Called /\ lastOp.saved /\ lastOp.hadSameDay) =>
        \E i \in 1..Len(PersistedHistory.items) :
            PersistedHistory.items[i] = HistoryEntry(Returned)

(* C6: right after an append, every entry of the persisted history of that  *)
(* user has a timestamp less than 90 days before the time of the append.    *)
C6_Retention ==
    (Called /\ lastOp.saved) =>
        \A i \in 1..Len(PersistedHistory.items) :
            lastOp.at - PersistedHistory.items[i].timestamp < 90 * TicksPerDay

(* an append that dropped an entry for its age has just been persisted *)
C6_Witness == Called /\ lastOp.saved /\ lastOp.evicted > 0

(* C7: for a new user (empty workout log, empty persisted history, working  *)
(* store) calculateIndex returns score <= 14, level "New User" and trend    *)
(* "stable".                                                                *)
C7_NewUserScenario ==
    (Called /\ lastOp.fault = "none" /\ lastOp.logWas = "empty" /\ lastOp.historyWas = "empty") =>
        /\ lastOp.result # <<>>
        /\ Returned.score <= 14
        /\ Returned.level = "New User"
        /\ Returned.trend = "stable"

IsDefaultSentinel(x) ==
    /\ x.score = 0
    /\ x.level = "Getting Started"
    /\ x.components = [consistency |-> 0, performance |-> 0, improvement |-> 50,
                       variety |-> 0, intensity |-> 0]
    /\ x.trend = "stable"
    /\ x.periodData = [weekly |-> <<>>, monthly |-> <<>>]

(* C8: whatever the store holds (missing keys, malformed JSON, non-array    *)
(* values) and whichever store calls throw, calculateIndex never raises: it *)
(* returns a computed result or exactly the default sentinel.               *)
C8_NeverRaises ==
    Called =>
        /\ ~lastOp.raised
        /\ lastOp.result # <<>>
        /\ lastOp.computed \/ IsDefaultSentinel(Returned)

(* an exception raised inside the try block was turned into the sentinel *)
C8_Witness == Called /\ lastOp.caught /\ ~lastOp.raised /\ IsDefaultSentinel(Returned)

(* C9: a non-empty log whose most recent record has no calories or no date  *)
(* is not an error: calculateIndex returns a computed result and persists   *)
(* it as for any other call.                                                *)
C9_MalformedRecordTolerated ==
    (Called /\ lastOp.fault = "none" /\ lastOp.lastRecordLacksField) =>
        /\ lastOp.computed
        /\ current[lastOp.user] = StoreValue("json", <<Returned>>)

(* C10: when the value under the history key is unparseable or not a list,  *)
(* an append treats it as empty: after calculateIndex has computed a result *)
(* the persisted history is the list holding exactly the new entry.         *)
C10_MalformedHistoryTreatedEmpty ==
    (Called /\ lastOp.fault = "none" /\ lastOp.computed
        /\ lastOp.historyWas \in {"garbage", "nonlist"}) =>
        PersistedHistory = StoreValue("list", <<HistoryEntry(Returned)>>)

ReadBy(op) == lastRead.op = op
EntriesOf(u) == history[u].items

(* the positions of the persisted entries of u less than days days old *)
WithinDays(u, days) ==
    {i \in 1..Len(EntriesOf(u)) : now - EntriesOf(u)[i].timestamp < days * TicksPerDay}

(* those of the positions S whose entry is more than days days old *)
OlderThan(u, S, days) ==
    {i \in S : now - EntriesOf(u)[i].timestamp > days * TicksPerDay}

(* the position in S of the entry with the latest timestamp *)
LatestIn(u, S) ==
    CHOOSE i \in S : \A j \in S : EntriesOf(u)[j].timestamp <= EntriesOf(u)[i].timestamp

(* the 14-day history the calculateTrend call that has just returned saw *)
TrendWindow == getIndexHistory(history[lastRead.user], 14, now, lastRead.fault)

(* C12: when fewer than 3 persisted entries of the user lie in the last 14  *)
(* days, calculateTrend returns "stable" whatever their scores.             *)
C12_FewEntriesStable ==
    (ReadBy("calculateTrend") /\ Cardinality(WithinDays(lastRead.user, 14)) < 3) =>
        lastRead.trend = "stable"

(* calculateTrend has returned over two entries whose scores are far apart *)
C12_Witness ==
    /\ ReadBy("calculateTrend") /\ lastRead.fault = "none"
    /\ Cardinality(WithinDays(lastRead.user, 14)) = 2
    /\ \E i, j \in WithinDays(lastRead.user, 14) :
          EntriesOf(lastRead.user)[j].score - EntriesOf(lastRead.user)[i].score > 10

(* C13: for a 14-day history of at least 3 entries, no entry is among both  *)
(* the entries averaged as "recent" and the entries averaged as "older".    *)
C13_OlderPrecedesRecent ==
    (ReadBy("calculateTrend") /\ Len(TrendWindow) >= 3) =>
        \A i \in 1..Len(OlderScores(TrendWindow)), j \in 1..Len(RecentScores(TrendWindow)) :
            OlderScores(TrendWindow)[i] # RecentScores(TrendWindow)[j]

(* the classification of section 4.3 of the specification, in exact arithmetic *)
ExactTrend(rs, rn, os, on) ==
    IF rs * on - os * rn > 5 * rn * on THEN "improving"
    ELSE IF rs * on - os * rn < -5 * rn * on THEN "declining"
    ELSE "stable"

(* C14: for a 14-day history of at least 3 entries calculateTrend returns   *)
(* "improving" exactly when recent mean - older mean > 5, "declining"       *)
(* exactly when it is < -5, else "stable" (so "stable" at exactly 5 or -5). *)
C14_TrendThresholds ==
    (ReadBy("calculateTrend") /\ Len(TrendWindow) >= 3) =>
        lastRead.trend =
            ExactTrend(TotalScore(RecentScores(TrendWindow)), Len(RecentScores(TrendWindow)),
                          TotalScore(OlderScores(TrendWindow)), Len(OlderScores(TrendWindow)))

(* C15: compareWithPrevious(u, days) returns null whenever, among the       *)
(* entries of the last 2 * days days, none is older than days days or none  *)
(* is at most days days old.                                                *)
C15_EmptyPartitionGivesNull ==
    (ReadBy("compareWithPrevious") /\ lastRead.fault = "none") =>
        ((\/ OlderThan(lastRead.user, WithinDays(lastRead.user, 2 * lastRead.days),
                       lastRead.days) = {}
          \/ OlderThan(lastRead.user, WithinDays(lastRead.user, 2 * lastRead.days),
                       lastRead.days) = WithinDays(lastRead.user, 2 * lastRead.days))
            => lastRead.comparison = <<>>)

(* the comparison r is the one of the scores cur and prev: percentChange,   *)
(* in tenths of a percent, is a tenth nearest to 100 * difference / prev    *)
IsComparisonOf(r, cur, prev) ==
    /\ r.current = cur
    /\ r.previous = prev
    /\ r.difference = cur - prev
    /\ IF prev = 0 THEN r.percentChange = 0
       ELSE /\ 2 * (r.percentChange * prev - 1000 * (cur - prev)) <= prev
            /\ 2 * (1000 * (cur - prev) - r.percentChange * prev) <= prev
    /\ r.trend = (IF cur > prev THEN "improving"
                  ELSE IF cur < prev THEN "declining" ELSE "stable")
    /\ (prev = 60 /\ cur = 66) =>
          (r.difference = 6 /\ r.percentChange = 100 /\ r.trend = "improving")

(* C16: a result of compareWithPrevious(u, days) compares the score of the  *)
(* latest entry of the last 2 * days days with the score of the latest      *)
(* entry older than days days: difference, percentChange rounded to one     *)
(* decimal (0 when previous is 0) and trend by the sign of the difference.  *)
C16_ComparisonFields ==
    (ReadBy("compareWithPrevious") /\ lastRead.comparison # <<>>) =>
        /\ OlderThan(lastRead.user, WithinDays(lastRead.user, 2 * lastRead.days),
                     lastRead.days) # {}
        /\ IsComparisonOf(lastRead.comparison[1],
              EntriesOf(lastRead.user)[LatestIn(lastRead.user,
                  WithinDays(lastRead.user, 2 * lastRead.days))].score,
              EntriesOf(lastRead.user)[LatestIn(lastRead.user,
                  OlderThan(lastRead.user, WithinDays(lastRead.user, 2 * lastRead.days),
                            lastRead.days))].score)

(* the weekly comparison of a previous score 60 with a current score 66 *)
C16_Witness ==
    /\ ReadBy("compareWithPrevious") /\ lastRead.days = 7 /\ lastRead.comparison # <<>>
    /\ lastRead.comparison[1].previous = 60 /\ lastRead.comparison[1].current = 66

(* C17: a calculateIndex call that follows, on the same calendar day and    *)
(* with the workout log unchanged, a call for the same user returns the     *)
(* same score, level, components, trend and periodData, and leaves as many  *)
(* entries in the persisted history as the first call did.                  *)
C17_Idempotent == (Called /\ lastOp.repeat) => lastOp.sameAsBefore

(* C20: getCurrentIndex and getIndexHistory write no key of the store,      *)
(* whatever it holds; getCurrentIndex returns the stored snapshot and       *)
(* getIndexHistory(u, days) exactly the persisted entries of u less than    *)
(* days days old, in stored order.                                          *)
C20_PureReads ==
    /\ [][ReadBy("getCurrentIndex")' \/ ReadBy("getIndexHistory")'
            => UNCHANGED <<workoutLog, current, history>>]_vars
    /\ []((ReadBy("getIndexHistory") /\ lastRead.fault = "none") =>
            lastRead.list = SelectSeq(EntriesOf(lastRead.user),
                LAMBDA e : now - e.timestamp < lastRead.days * TicksPerDay))
    /\ []((ReadBy("getCurrentIndex") /\ lastRead.fault = "none"
              /\ current[lastRead.user].kind = "json") =>
            lastRead.stored = current[lastRead.user])

(* getIndexHistory has returned some but not all of the persisted entries *)
C20_Witness ==
    /\ ReadBy("getIndexHistory") /\ lastRead.fault = "none"
    /\ Len(lastRead.list) > 0
    /\ Len(lastRead.list) < Len(EntriesOf(lastRead.user))

(* invocation p has returned and no other invocation is or was for its user *)
RanApart(p) ==
    /\ inv[p].pc = "done"
    /\ \A q \in Procs \ {p} : inv[q].user # inv[p].user

(* C18: invocations for different users do not interfere: a step of an      *)
(* invocation for u writes no key of another user, and when an invocation   *)
(* has returned with every other invocation being for another user, its     *)
(* result and the current snapshot and history of its user are those of     *)
(* running it alone, however the store calls were interleaved.              *)
C18_UsersDoNotInterfere ==
    /\ [](\A p \in Procs : RanApart(p) =>
            /\ inv[p].result = inv[p].sResult
            /\ current[inv[p].user] = inv[p].sCur
            /\ history[inv[p].user] = inv[p].sHist)
    /\ [][\A v \in Users :
            (\A p \in Procs : inv'[p] # inv[p] => inv'[p].user # v) =>
                (history'[v] = history[v] /\ current'[v] = current[v])]_vars

(* two invocations for different users have both appended, the first one    *)
(* reading its history before and writing it after the write of the other   *)
C18_Witness ==
    /\ RanApart("p1") /\ RanApart("p2")
    /\ inv["p1"].readStep < inv["p2"].writeStep
    /\ inv["p2"].writeStep < inv["p1"].writeStep
    /\ inv["p1"].result[1].lastUpdated < inv["p2"].result[1].lastUpdated

TimestampsOf(hv) == {hv.items[i].timestamp : i \in 1..Len(hv.items)}

Stamp(p) == inv[p].result[1].lastUpdated

(* p and q, for the same user, have both appended on the same day, p with   *)
(* the earlier snapshot; p read the history before q wrote it and wrote it  *)
(* after q did                                                              *)
LostUpdate(p, q) ==
    /\ inv[p].pc = "done" /\ inv[q].pc = "done"
    /\ inv[p].user = inv[q].user
    /\ inv[p].writeStep > 0 /\ inv[q].writeStep > 0
    /\ Stamp(p) < Stamp(q)
    /\ DayOf(Stamp(p)) = DayOf(Stamp(q))
    /\ inv[p].readStep < inv[q].writeStep
    /\ inv[q].writeStep < inv[p].writeStep

(* the history after the snapshots a and then b are appended to hv, one     *)
(* append after the other                                                   *)
SerialAppends(hv, a, b) == Appended(Appended(hv, a), b)

(* C19: the history append is a read-modify-write that is not atomic: when  *)
(* an invocation reads the history before, and writes it after, the write   *)
(* of a later-stamped invocation for the same user on the same day, the     *)
(* persisted history lacks the later snapshot, holds the earlier-stamped    *)
(* entry for the day, and is the outcome of neither serial order.           *)
C19_LostUpdateOutcome ==
    \A p, q \in Procs :
        LostUpdate(p, q) =>
            /\ Stamp(q) \notin TimestampsOf(history[inv[p].user])
            /\ Stamp(p) \in TimestampsOf(history[inv[p].user])
            /\ TimestampsOf(history[inv[p].user]) #
                  TimestampsOf(SerialAppends(inv[p].read, inv[p].result[1], inv[q].result[1]))
            /\ TimestampsOf(history[inv[p].user]) #
                  TimestampsOf(SerialAppends(inv[p].read, inv[q].result[1], inv[p].result[1]))

(* the later snapshot of two overlapping invocations has been lost *)
C19_Witness == \E p, q \in Procs : LostUpdate(p, q)

(* the call that has just returned computed a result and met a store whose *)
(* calls all succeeded and whose history value was a list or absent         *)
ComputedOnWorkingStore ==
    /\ Called
    /\ lastOp.computed
    /\ lastOp.fault = "none"
    /\ lastOp.historyWas \in {"empty", "entries"}

(* C21: after a calculateIndex(u) call that returned a computed result on a *)
(* working store, getCurrentIndex(u) returns a snapshot equal to the result *)
(* and the history of u holds an entry with the result's score, level,      *)
(* components, trend, workoutCount and timestamp = lastUpdated.             *)
C21_CurrentAndHistoryHoldResult ==
    ComputedOnWorkingStore =>
        /\ getCurrentIndex(current[lastOp.user], "none") = StoreValue("json", <<Returned>>)
        /\ \E i \in 1..Len(PersistedHistory.items) :
               PersistedHistory.items[i] = HistoryEntry(Returned)

(* the number of workouts of the log in the 30 days before the call *)
WorkoutsLast30Days == Len(RecentWorkouts(workoutLog.items, lastOp.at))

FracLeq(a, b) == a.n * b.d <= b.n * a.d
FracIs(a, k) == a.n = k * a.d

(* C22: the consistency score is monotone in the number w of workouts in    *)
(* the last 30 days, before and after rounding to the integer component,    *)
(* with consistency(0) = 0, consistency(3) = 10 and consistency(w) = 100    *)
(* for every w >= 30; the returned component is that function of w.         *)
C22_ConsistencyMonotone ==
    (Called /\ lastOp.computed) =>
        /\ Returned.components.consistency = Clamped(ConsistencyOfCount(WorkoutsLast30Days))
        /\ \A v \in 0..WorkoutsLast30Days :
               /\ FracLeq(ConsistencyOfCount(v), ConsistencyOfCount(WorkoutsLast30Days))
               /\ Clamped(ConsistencyOfCount(v)) <= Returned.components.consistency
               /\ (v = 0) => FracIs(ConsistencyOfCount(v), 0)
               /\ (v = 3) => FracIs(ConsistencyOfCount(v), 10)
               /\ (v >= 30) => FracIs(ConsistencyOfCount(v), 100)

(* a log with more than 30 workouts in the last 30 days has been scored *)
C22_Witness ==
    /\ Called /\ lastOp.computed
    /\ WorkoutsLast30Days > 30
    /\ Returned.components.consistency = 100

(* the record is 30 minutes of running, 300 calories, default biometrics *)
IsPlainRun(w) ==
    /\ ~w.isNull
    /\ w.calories = 300 /\ w.activity = "running" /\ w.duration = 30
    /\ w.heartRate = 0 /\ w.age = 0 /\ w.weight = 0 /\ w.gender = ""

(* 30 such records on 30 distinct days, all within the 30 days before t *)
IsThirtyDayLog(items, t) ==
    /\ Len(items) = 30
    /\ \A i \in 1..30 :
           /\ IsPlainRun(items[i])
           /\ items[i].date >= t - 30 * TicksPerDay
           /\ items[i].date <= t
    /\ \A i, j \in 1..30 : i # j => DayOf(items[i].date) # DayOf(items[j].date)

(* C23: for a log of 30 workouts on 30 distinct days within the last 30     *)
(* days, all running, 30 minutes, 300 calories, default biometrics,         *)
(* calculateIndex returns consistency 100, variety 14, improvement 50 and   *)
(* a score strictly between 55 and 75.                                      *)
C23_ThirtyWorkoutScenario ==
    (Called /\ IsThirtyDayLog(workoutLog.items, lastOp.at)) =>
        /\ lastOp.computed
        /\ Returned.components.consistency = 100
        /\ Returned.components.variety = 14
        /\ Returned.components.improvement = 50
        /\ Returned.score > 55
        /\ Returned.score < 75

(* the positions of list whose entry is the one to keep for its calendar    *)
(* day: no entry of that day is later, and none as late comes before it     *)
LatestOfDay(list) ==
    { i \in 1..Len(list) :
        \A j \in 1..Len(list) :
            DayOf(list[j].timestamp) = DayOf(list[i].timestamp) =>
                \/ list[j].timestamp < list[i].timestamp
                \/ (list[j].timestamp = list[i].timestamp /\ j >= i) }

(* result is pushed deduplicated to one entry per day and then cleared of   *)
(* the entries 90 days old or older: those entries and no others, in        *)
(* ascending order of timestamp                                             *)
IsDedupedThenEvicted(result, pushed, t) ==
    /\ \A i \in 1..(Len(result) - 1) : result[i].timestamp < result[i + 1].timestamp
    /\ { result[i] : i \in 1..Len(result) }
         = { pushed[i] : i \in { k \in LatestOfDay(pushed) :
                 pushed[k].timestamp > t - 90 * TicksPerDay } }

(* C24: the list an append persists is the old list with the new entry      *)
(* pushed, deduplicated per day and then cleared of entries older than 90   *)
(* days (the specified order), although the code evicts first.              *)
C24_SpecifiedOrderEquivalent ==
    [][(lastOp'.user # "" /\ lastOp'.saved) =>
          IsDedupedThenEvicted(history'[lastOp'.user].items,
                               Append(history[lastOp'.user].items,
                                      HistoryEntry(lastOp'.result[1])),
                               now)]_vars

(* an append has just evicted an old entry and replaced the entry of the day *)
C24_Witness ==
    /\ Called /\ lastOp.saved
    /\ lastOp.evicted > 0
    /\ lastOp.hadSameDay
    /\ \E i \in 1..Len(PersistedHistory.items) :
           PersistedHistory.items[i] = HistoryEntry(Returned)

(* the store calls of one invocation, as the positions it passes through:   *)
(* the log is read, the history is read for the trend, for the weekly and   *)
(* for the monthly comparison, the current snapshot is written, the history *)
(* is read and written back; the default is returned right after the log    *)
(* is read, and a history value that is no list ends the append             *)
StoreCallOrder ==
    { <<"idle", "scored">>, <<"idle", "done">>, <<"scored", "gotTrend">>,
      <<"gotTrend", "gotWeekly">>, <<"gotWeekly", "gotMonthly">>,
      <<"gotMonthly", "savedCurrent">>, <<"savedCurrent", "gotHistory">>,
      <<"savedCurrent", "done">>, <<"gotHistory", "done">> }

(* invocation p holds a computed result *)
HoldsComputed(p) ==
    /\ inv[p].pc \in {"savedCurrent", "gotHistory", "done"}
    /\ inv[p].components # <<>>

(* C25: one invocation of calculateIndex that computes a result reads the   *)
(* workout log, reads the history (trend, weekly, monthly), writes the      *)
(* current snapshot and then reads and writes the history, in this order;   *)
(* the trend and periodData it returns are the ones read before its own     *)
(* writes, from the history persisted before the invocation, and not from   *)
(* the entry it appends.                                                    *)
C25_StoreOperationOrder ==
    /\ [][\A p \in Procs :
            inv'[p].pc # inv[p].pc => <<inv[p].pc, inv'[p].pc>> \in StoreCallOrder]_vars
    /\ [][(current' # current) =>
            \E p \in Procs : inv[p].pc = "gotMonthly" /\ inv'[p].pc = "savedCurrent"]_vars
    /\ [][(history' # history) =>
            \E p \in Procs : inv[p].pc = "gotHistory" /\ inv'[p].pc = "done"]_vars
    /\ [][\A p \in Procs :
            /\ (inv'[p].trend # inv[p].trend) =>
                   /\ inv[p].pc = "scored"
                   /\ inv'[p].trend = calculateTrend(history[inv[p].user], now, "none")
            /\ (inv'[p].weekly # inv[p].weekly) =>
                   /\ inv[p].pc = "gotTrend"
                   /\ inv'[p].weekly = compareWithPrevious(history[inv[p].user], 7, now, "none")
            /\ (inv'[p].monthly # inv[p].monthly) =>
                   /\ inv[p].pc = "gotWeekly"
                   /\ inv'[p].monthly
                        = compareWithPrevious(history[inv[p].user], 30, now, "none")]_vars
    /\ [](\A p \in Procs : HoldsComputed(p) =>
            /\ inv[p].result[1].trend = inv[p].trend
            /\ inv[p].result[1].periodData
                 = [weekly |-> inv[p].weekly, monthly |-> inv[p].monthly])
    /\ [](\A p \in Procs : (RanApart(p) /\ HoldsComputed(p) /\ inv[p].readStep > 0) =>
            \E t \in RaceNow..now :
                /\ inv[p].result[1].trend = calculateTrend(inv[p].sRead, t, "none")
                /\ inv[p].result[1].periodData = getPeriodComparisons(inv[p].sRead, t, "none"))

(* an invocation has returned a trend that the history it leaves behind,   *)
(* with its own entry, would no longer give                                 *)
C25_Witness ==
    \E p \in Procs :
        /\ RanApart(p) /\ HoldsComputed(p)
        /\ inv[p].writeStep > 0
        /\ inv[p].result[1].trend = "stable"
        /\ calculateTrend(history[inv[p].user], now, "none") # "stable"

(* the records of a sequence, as a set *)
RecordsOf(ws) == {ws[i] : i \in 1..Len(ws)}

(* the record is dated in calendar month m *)
DatedInMonth(w, m) == w.date # NoDate /\ MonthOf(w.date) = m

(* the improvement score when the averages are taken over the records dated *)
(* in the current and in the preceding calendar month                       *)
ImprovementByCalendarMonth(wh, t) ==
    IF Len(wh) < 2 THEN Frac(50, 1)
    ELSE ImprovementOfMonths(SelectSeq(wh, LAMBDA w : DatedInMonth(w, MonthOf(t))),
                             SelectSeq(wh, LAMBDA w : DatedInMonth(w, MonthOf(t) - 1)))

(* C26: in the improvement scorer every record dated in the preceding       *)
(* calendar month, at any time of any of its days, counts in the            *)
(* previous-month average, every record dated in the current month counts   *)
(* in the current-month average, and no record counts in both; the          *)
(* improvement component is the score of those two averages.                *)
C26_MonthPartition ==
    (Called /\ lastOp.computed) =>
        /\ \A w \in RecordsOf(workoutLog.items) :
               /\ DatedInMonth(w, MonthOf(lastOp.at) - 1) =>
                      w \in RecordsOf(PreviousMonthWorkouts(workoutLog.items, MonthOf(lastOp.at)))
               /\ DatedInMonth(w, MonthOf(lastOp.at)) =>
                      w \in RecordsOf(CurrentMonthWorkouts(workoutLog.items, MonthOf(lastOp.at)))
               /\ ~ /\ w \in RecordsOf(PreviousMonthWorkouts(workoutLog.items,
                                                            MonthOf(lastOp.at)))
                    /\ w \in RecordsOf(CurrentMonthWorkouts(workoutLog.items,
                                                           MonthOf(lastOp.at)))
        /\ Returned.components.improvement
             = Clamped(ImprovementByCalendarMonth(workoutLog.items, lastOp.at))

(* the age factor of the target-calorie formula as specified, in tenths *)
SpecifiedAgeAdjust10(age) ==
    IF age < 20 THEN 11
    ELSE IF age > 65 THEN 8
    ELSE IF age > 50 THEN 9
    ELSE 10

(* C27: the age factor the target-calorie formula applies to a record is    *)
(* 1.1 for age < 20, 0.9 for 50 < age <= 65, 0.8 for age > 65 and 1.0       *)
(* otherwise (an absent age counts as 25).                                  *)
C27_AgeAdjustment ==
    (Called /\ lastOp.computed) =>
        \A w \in RecordsOf(workoutLog.items) :
            ageAdjust10(OrDefault(w.age, 25)) = SpecifiedAgeAdjust10(OrDefault(w.age, 25))

(* the call read the log, and the log was no list or its most recent record *)
(* lacked calories or a date                                                *)
ValidationFailed(op) ==
    /\ ~getThrows(op.fault)
    /\ (op.logWas = "nonlist" \/ op.lastRecordLacksField)

(* C28: a calculateIndex call that returns the default because validation   *)
(* of the workout log failed writes no key of the store: the current        *)
(* snapshots and the histories are as they were.                            *)
C28_NoWriteOnSentinel ==
    [][(lastOp'.user # "" /\ ValidationFailed(lastOp')) =>
          /\ IsDefaultSentinel(lastOp'.result[1])
          /\ UNCHANGED <<workoutLog, current, history>>]_vars

(* the default has just been returned for a log whose most recent record    *)
(* lacks a field, to a user who has a snapshot and a history                *)
C28_Witness ==
    /\ Called /\ lastOp.lastRecordLacksField
    /\ IsDefaultSentinel(Returned)
    /\ current[lastOp.user].kind = "json"
    /\ Len(PersistedHistory.items) > 0

StrictlyAscending(items) ==
    \A i \in 1..(Len(items) - 1) : items[i].timestamp < items[i + 1].timestamp

(* the last k entries of items are its k latest: every other entry is       *)
(* earlier than each of them                                                *)
LastAreLatest(items, k) ==
    \A i \in 1..(Len(items) - k) :
        \A j \in (Len(items) - k + 1)..Len(items) :
            items[i].timestamp < items[j].timestamp

(* C29: the persisted history of every user is in strictly ascending order  *)
(* of timestamp after any sequence of appends, so that its last entry is    *)
(* the most recent snapshot, the 5 entries calculateTrend takes as recent   *)
(* are the 5 latest of its 14-day window, and the entry compareWithPrevious *)
(* takes as current is the latest of its window.                            *)
C29_HistorySorted ==
    \A u \in Users :
        /\ StrictlyAscending(history[u].items)
        /\ LastAreLatest(history[u].items, 1)
        /\ LastAreLatest(getIndexHistory(history[u], 14, now, "none"), 5)
        /\ \A days \in {7, 30} :
               LastAreLatest(getIndexHistory(history[u], 2 * days, now, "none"), 1)

(* an append has just put its entry at the end of a history with more than  *)
(* 5 entries in the last 14 days                                            *)
C29_Witness ==
    /\ Called /\ lastOp.saved
    /\ Len(getIndexHistory(PersistedHistory, 14, now, "none")) > 5
    /\ PersistedHistory.items[Len(PersistedHistory.items)] = HistoryEntry(Returned)

(* the keys of u hold nothing or what the engine wrote: the store was empty *)
(* and well-formed for u when the engine first ran                          *)
StartedEmpty(u) ==
    /\ history[u].kind \in {"missing", "list"}
    /\ current[u].kind \in {"missing", "json"}

(* the entry is the copy of the snapshot that saveToHistory appends *)
EntryMatches(entry, snapshot) ==
    /\ entry.score = snapshot.score
    /\ entry.level = snapshot.level
    /\ entry.components = snapshot.components
    /\ entry.trend = snapshot.trend
    /\ entry.timestamp = snapshot.lastUpdated

(* the current snapshot and the last history entry of u are both absent, or *)
(* the entry is the copy of the snapshot                                    *)
CurrentAgreesWithHistory(u) ==
    \/ current[u].kind = "missing" /\ Len(history[u].items) = 0
    \/ /\ current[u].kind = "json"
       /\ Len(history[u].items) > 0
       /\ EntryMatches(history[u].items[Len(history[u].items)], current[u].items[1])

(* the clock reads later than at every earlier call that left a trace *)
ClockIsLater(u) ==
    /\ current[u].kind = "json" => current[u].items[1].lastUpdated < now
    /\ \A i \in 1..Len(history[u].items) : history[u].items[i].timestamp < now

====
